---- MODULE Spec2Model ----
(***************************************************************************)
(* A model of sympy/solvers/inequalities.py: the polynomial sign sweep     *)
(* (solve_poly_inequality), the union-of-intersections system solver       *)
(* (solve_poly_inequalities), the polynomial reducer, the absolute-value   *)
(* case split (reduce_abs_inequality) and the dispatcher                   *)
(* (reduce_inequalities) with its linear fast path (_solve_inequality).    *)
(*                                                                         *)
(* Each function has a frame variable holding its locals; every frame has  *)
(* a specification of its own (SpecPoly, SpecSys, SpecAbs, SpecDisp,       *)
(* SpecLin) in which the other frames stay idle.                           *)
(***************************************************************************)
EXTENDS Integers, Sequences, FiniteSets, TLC

VARIABLES sw, sy, ab, ri, ln

vars == <<sw, sy, ab, ri, ln>>

Idle == [pc |-> "idle"]

(***************************************************************************)
(* Bounds of the model.                                                    *)
(***************************************************************************)
\* real roots are the integers -MaxRoot .. MaxRoot
MaxRoot == 2
\* a polynomial has at most MaxRoots distinct real roots
MaxRoots == 3
\* a root has multiplicity 1 .. MaxMult
MaxMult == 2

(***************************************************************************)
(* Exact numbers: a rational n/d (d > 0) or one of the two infinities.     *)
(***************************************************************************)
Q(n, d) == [inf |-> 0, n |-> n, d |-> d]

Infinity == [inf |-> 1, n |-> 0, d |-> 1]

NegativeInfinity == [inf |-> -1, n |-> 0, d |-> 1]

Less(a, b) ==
    IF a.inf # 0 \/ b.inf # 0 THEN a.inf < b.inf
    ELSE a.n * b.d < b.n * a.d

Same(a, b) == ~Less(a, b) /\ ~Less(b, a)

(***************************************************************************)
(* The interval algebra (sympy.core.Interval and its sets).                *)
(***************************************************************************)
EmptySet ==
    [left |-> Infinity, right |-> NegativeInfinity,
     left_open |-> TRUE, right_open |-> TRUE]

\* Interval(start, end, left_open, right_open); a range with no point is
\* the empty set.
Interval(start, end, left_open, right_open) ==
    IF Less(end, start) \/ (Same(start, end) /\ (left_open \/ right_open))
    THEN EmptySet
    ELSE [left |-> start, right |-> end,
          left_open |-> left_open, right_open |-> right_open]

\* Interval(a, a): the single point a.
Point(a) == Interval(a, a, FALSE, FALSE)

\* x lies in the interval
Contains(I, x) ==
    /\ I # EmptySet
    /\ Less(I.left, x) \/ (~I.left_open /\ Same(I.left, x))
    /\ Less(x, I.right) \/ (~I.right_open /\ Same(x, I.right))

\* x lies in one of the intervals of a list
InList(intervals, x) ==
    \E j \in 1..Len(intervals) : Contains(intervals[j], x)

(***************************************************************************)
(* Polynomials, as the polynomial engine reports them: the sign of the     *)
(* leading coefficient and the real roots with multiplicities, ascending.  *)
(***************************************************************************)
RootVals == -MaxRoot..MaxRoot

RECURSIVE RootLists(_, _)
\* the ascending lists of at most k (root, multiplicity) pairs, all roots
\* above lo
RootLists(lo, k) ==
    IF k = 0 THEN {<<>>}
    ELSE {<<>>} \cup
         UNION {{<<[root |-> Q(r, 1), mult |-> m]>> \o t :
                    t \in RootLists(r, k - 1)} :
                r \in {v \in RootVals : v > lo}, m \in 1..MaxMult}

Polys == [LC : {-1, 1}, roots : RootLists(-MaxRoot - 1, MaxRoots)]

\* poly.real_roots(multiple=False)
real_roots(poly) == poly.roots

\* poly.LC()
LC(poly) == poly.LC

Relations == {"==", "!=", ">", "<", ">=", "<="}

Ordering == {">", "<", ">=", "<="}

\* a string that is none of the six relations
BadRel == "=>"

(***************************************************************************)
(* solve_poly_inequality                                                   *)
(***************************************************************************)
RECURSIVE EqIntervals(_)
\* lines 56-58: one closed point per root
EqIntervals(reals) ==
    IF reals = <<>> THEN <<>>
    ELSE <<Point(Head(reals).root)>> \o EqIntervals(Tail(reals))

RECURSIVE NeIntervals_Closed(_, _)
\* a variant of NeIntervals that closes the gaps at the roots
NeIntervals_Closed(left, reals) ==
    IF reals = <<>> THEN <<>>
    ELSE <<Interval(left, Head(reals).root, FALSE, FALSE)>>
         \o NeIntervals_Closed(Head(reals).root, Tail(reals))

RECURSIVE NeIntervals(_, _)
\* lines 62-65: the open gaps, walking the roots as the engine orders them
NeIntervals(left, reals) ==
    IF reals = <<>> THEN <<>>
    ELSE <<Interval(left, Head(reals).root, TRUE, TRUE)>>
         \o NeIntervals(Head(reals).root, Tail(reals))

RECURSIVE InsertDesc(_, _)
InsertDesc(w, sorted) ==
    IF sorted = <<>> THEN <<w>>
    ELSE IF Less(Head(sorted).root, w.root) THEN <<w>> \o sorted
    ELSE <<Head(sorted)>> \o InsertDesc(w, Tail(sorted))

RECURSIVE SortDesc(_)
\* line 87: reals.sort(key=lambda w: w[0], reverse=True)
SortDesc(reals) ==
    IF reals = <<>> THEN <<>>
    ELSE InsertDesc(Head(reals), SortDesc(Tail(reals)))

\* lines 67-70
LCSign(poly) == IF LC(poly) > 0 THEN 1 ELSE -1

\* lines 72-83: (eq_sign, equal) of an ordering relation
RelSign(rel) ==
    CASE rel = ">" -> [eq_sign |-> 1, equal |-> FALSE]
      [] rel = "<" -> [eq_sign |-> -1, equal |-> FALSE]
      [] rel = ">=" -> [eq_sign |-> 1, equal |-> TRUE]
      [] rel = "<=" -> [eq_sign |-> -1, equal |-> TRUE]

\* a variant of SweepRoot that ignores the multiplicity: every root flips
\* the sign
SweepRoot_AlwaysFlip(st, left, multiplicity, eq_sign, equal) ==
    [sign |-> -st.sign, right |-> left, right_open |-> ~equal,
     intervals |->
         IF st.sign = eq_sign
         THEN <<Interval(left, st.right, ~equal, st.right_open)>>
              \o st.intervals
         ELSE st.intervals]

\* a variant of SweepRoot that appends where lines 91, 96 and 99 insert at
\* index 0
SweepRoot_Append(st, left, multiplicity, eq_sign, equal) ==
    IF multiplicity % 2 = 1
    THEN [sign |-> -st.sign, right |-> left, right_open |-> ~equal,
          intervals |->
              IF st.sign = eq_sign
              THEN st.intervals
                   \o <<Interval(left, st.right, ~equal, st.right_open)>>
              ELSE st.intervals]
    ELSE IF st.sign = eq_sign /\ ~equal
    THEN [sign |-> st.sign, right |-> left, right_open |-> TRUE,
          intervals |-> st.intervals
                        \o <<Interval(left, st.right, TRUE, st.right_open)>>]
    ELSE IF st.sign # eq_sign /\ equal
    THEN [st EXCEPT !.intervals = st.intervals \o <<Point(left)>>]
    ELSE st

\* lines 89-99: one pass of the loop body over the root `left`
SweepRoot(st, left, multiplicity, eq_sign, equal) ==
    IF multiplicity % 2 = 1
    THEN [sign |-> -st.sign, right |-> left, right_open |-> ~equal,
          intervals |->
              IF st.sign = eq_sign
              THEN <<Interval(left, st.right, ~equal, st.right_open)>>
                   \o st.intervals
              ELSE st.intervals]
    ELSE IF st.sign = eq_sign /\ ~equal
    THEN [sign |-> st.sign, right |-> left, right_open |-> TRUE,
          intervals |-> <<Interval(left, st.right, TRUE, st.right_open)>>
                        \o st.intervals]
    ELSE IF st.sign # eq_sign /\ equal
    THEN [st EXCEPT !.intervals = <<Point(left)>> \o st.intervals]
    ELSE st

\* lines 101-102
SweepClose(st, eq_sign) ==
    IF st.sign = eq_sign
    THEN <<Interval(NegativeInfinity, st.right, TRUE, st.right_open)>>
         \o st.intervals
    ELSE st.intervals

RECURSIVE SweepAll(_, _, _, _)
SweepAll(st, reals, eq_sign, equal) ==
    IF reals = <<>> THEN st
    ELSE SweepAll(SweepRoot(st, Head(reals).root, Head(reals).mult,
                            eq_sign, equal),
                  Tail(reals), eq_sign, equal)

\* line 85, with the sign of lines 67-70
SweepStart(poly) ==
    [sign |-> LCSign(poly), right |-> Infinity, right_open |-> TRUE,
     intervals |-> <<>>]

\* the whole function, for a valid relation
solve_poly_inequality(poly, rel) ==
    IF rel = "==" THEN EqIntervals(real_roots(poly))
    ELSE IF rel = "!="
    THEN NeIntervals(NegativeInfinity,
                     real_roots(poly) \o <<[root |-> Infinity, mult |-> 1]>>)
    ELSE LET rs == RelSign(rel)
         IN  SweepClose(SweepAll(SweepStart(poly), SortDesc(real_roots(poly)),
                                 rs.eq_sign, rs.equal),
                        rs.eq_sign)

(***************************************************************************)
(* The sweep, one loop pass per step.                                      *)
(***************************************************************************)
SwLocals(f) ==
    [sign |-> f.sign, right |-> f.right, right_open |-> f.right_open,
     intervals |-> f.intervals]

InitPoly ==
    /\ sw \in {[pc |-> "call", poly |-> p, rel |-> r, reals |-> <<>>,
                sign |-> 0, eq_sign |-> 0, equal |-> FALSE,
                right |-> Infinity, right_open |-> TRUE,
                intervals |-> <<>>, ret |-> "none"] :
               p \in Polys, r \in Relations \cup {BadRel}}
    /\ sy = Idle /\ ab = Idle /\ ri = Idle /\ ln = Idle

\* rel == '==' (lines 55-58) and the return
SolveEq ==
    /\ sw.pc = "call" /\ sw.rel = "=="
    /\ sw' = [sw EXCEPT !.pc = "done",
                        !.intervals = EqIntervals(real_roots(sw.poly)),
                        !.ret = "intervals"]
    /\ UNCHANGED <<sy, ab, ri, ln>>

\* rel == '!=' (lines 59-65) and the return
SolveNe ==
    /\ sw.pc = "call" /\ sw.rel = "!="
    /\ sw' = [sw EXCEPT !.pc = "done",
                        !.intervals =
                            NeIntervals(NegativeInfinity,
                                real_roots(sw.poly)
                                \o <<[root |-> Infinity, mult |-> 1]>>),
                        !.ret = "intervals"]
    /\ UNCHANGED <<sy, ab, ri, ln>>

\* lines 67-87: the sign, (eq_sign, equal), the right boundary, the sort
SweepEnter ==
    /\ sw.pc = "call" /\ sw.rel \in Ordering
    /\ sw' = [sw EXCEPT !.pc = "loop",
                        !.sign = LCSign(sw.poly),
                        !.eq_sign = RelSign(sw.rel).eq_sign,
                        !.equal = RelSign(sw.rel).equal,
                        !.right = Infinity, !.right_open = TRUE,
                        !.reals = SortDesc(real_roots(sw.poly))]
    /\ UNCHANGED <<sy, ab, ri, ln>>

\* lines 82-83: none of the six relations
InvalidRelation ==
    /\ sw.pc = "call" /\ sw.rel \notin Relations
    /\ sw' = [sw EXCEPT !.pc = "done", !.sign = LCSign(sw.poly),
                        !.ret = "ValueError"]
    /\ UNCHANGED <<sy, ab, ri, ln>>

\* lines 88-99: one pass of the loop
SweepStep ==
    /\ sw.pc = "loop" /\ sw.reals # <<>>
    /\ LET st == SweepRoot(SwLocals(sw), Head(sw.reals).root,
                           Head(sw.reals).mult, sw.eq_sign, sw.equal)
       IN  sw' = [sw EXCEPT !.reals = Tail(sw.reals),
                            !.sign = st.sign, !.right = st.right,
                            !.right_open = st.right_open,
                            !.intervals = st.intervals]
    /\ UNCHANGED <<sy, ab, ri, ln>>

\* lines 101-104: the last interval and the return
SweepFinish ==
    /\ sw.pc = "loop" /\ sw.reals = <<>>
    /\ sw' = [sw EXCEPT !.pc = "done",
                        !.intervals = SweepClose(SwLocals(sw), sw.eq_sign),
                        !.ret = "intervals"]
    /\ UNCHANGED <<sy, ab, ri, ln>>

NextPoly ==
    \/ SolveEq
    \/ SolveNe
    \/ SweepEnter
    \/ InvalidRelation
    \/ SweepStep
    \/ SweepFinish

SpecPoly == InitPoly /\ [][NextPoly]_vars

(***************************************************************************)
(* What the polynomial is at a point, from its roots alone.                *)
(***************************************************************************)
\* the half-integers from below the least root to above the greatest one:
\* every root, and a point in every gap
TestPts == {Q(t, 2) : t \in (-2 * MaxRoot - 1)..(2 * MaxRoot + 1)}

Sgn(x, r) == IF Less(r, x) THEN 1 ELSE IF Less(x, r) THEN -1 ELSE 0

RECURSIVE SgnPow(_, _)
SgnPow(s, m) == IF m = 0 THEN 1 ELSE s * SgnPow(s, m - 1)

RECURSIVE RootsSign(_, _)
RootsSign(roots, x) ==
    IF roots = <<>> THEN 1
    ELSE SgnPow(Sgn(x, Head(roots).root), Head(roots).mult)
         * RootsSign(Tail(roots), x)

\* the sign of poly(x)
PolySign(poly, x) == LCSign(poly) * RootsSign(poly.roots, x)

\* poly(x) rel 0
Satisfies(poly, rel, x) ==
    LET s == PolySign(poly, x)
    IN  CASE rel = ">" -> s = 1
          [] rel = ">=" -> s >= 0
          [] rel = "<" -> s = -1
          [] rel = "<=" -> s <= 0
          [] rel = "==" -> s = 0
          [] rel = "!=" -> s # 0

HasOdd(poly) == \E j \in 1..Len(poly.roots) : poly.roots[j].mult % 2 = 1

HasEven(poly) == \E j \in 1..Len(poly.roots) : poly.roots[j].mult % 2 = 0

\* C1: for an ordering relation the returned intervals cover exactly the
\* points where poly(x) rel 0: a point of a gap is covered iff the sign of
\* the polynomial there is the one the relation asks for, and a root is
\* covered iff the relation is inclusive.
C1_SweepExact ==
    (sw.pc = "done" /\ sw.rel \in Ordering) =>
        \A x \in TestPts :
            InList(sw.intervals, x) <=> Satisfies(sw.poly, sw.rel, x)

C1_Witness ==
    /\ sw.pc = "done" /\ sw.rel = ">="
    /\ HasOdd(sw.poly) /\ HasEven(sw.poly)
    /\ Len(sw.intervals) >= 2
    /\ \E j \in 1..Len(sw.intervals) :
           sw.intervals[j].left = sw.intervals[j].right

\* the result of the other of the two relations == and !=
OtherOfEqNe(poly, rel) ==
    solve_poly_inequality(poly, IF rel = "==" THEN "!=" ELSE "==")

\* C2: solve(poly, ==) is one closed point per distinct real root,
\* solve(poly, !=) is the open gaps between consecutive roots and the two
\* unbounded ends, and every real lies in exactly one of the two results.
C2_EqNePartition ==
    (sw.pc = "done" /\ sw.rel \in {"==", "!="}) =>
        LET n == Len(real_roots(sw.poly))
            other == OtherOfEqNe(sw.poly, sw.rel)
        IN  /\ \A x \in TestPts :
                   InList(sw.intervals, x) # InList(other, x)
            /\ sw.rel = "==" =>
                   /\ Len(sw.intervals) = n
                   /\ \A j \in 1..n :
                          sw.intervals[j] = Point(real_roots(sw.poly)[j].root)
            /\ sw.rel = "!=" =>
                   /\ Len(sw.intervals) = n + 1
                   /\ \A j \in 1..(n + 1) :
                          /\ sw.intervals[j].left_open
                          /\ sw.intervals[j].right_open
                          /\ sw.intervals[j].left =
                                 IF j = 1 THEN NegativeInfinity
                                 ELSE real_roots(sw.poly)[j - 1].root
                          /\ sw.intervals[j].right =
                                 IF j = n + 1 THEN Infinity
                                 ELSE real_roots(sw.poly)[j].root

C2_Witness ==
    /\ sw.pc = "done" /\ sw.rel = "!="
    /\ Len(real_roots(sw.poly)) = MaxRoots
    /\ Len(sw.intervals) = MaxRoots + 1

C2_WitnessNoRoots ==
    /\ sw.pc = "done" /\ sw.rel = "=="
    /\ real_roots(sw.poly) = <<>> /\ sw.intervals = <<>>

\* I ends before J starts, the two sharing no point
Before(I, J) ==
    \/ Less(I.right, J.left)
    \/ Same(I.right, J.left) /\ (I.right_open \/ J.left_open)

\* sorted by increasing left endpoint and pairwise disjoint
SortedDisjoint(intervals) ==
    \A j \in 1..Len(intervals), k \in 1..Len(intervals) :
        j < k => /\ Less(intervals[j].left, intervals[k].left)
                 /\ Before(intervals[j], intervals[k])

\* every member lies at or to the right of b
RightOf(intervals, b) ==
    \A j \in 1..Len(intervals) : ~Less(intervals[j].left, b)

\* the root the loop passed last (+oo before the first pass)
LastSwept ==
    LET all == SortDesc(real_roots(sw.poly))
        done == Len(all) - Len(sw.reals)
    IN  IF done = 0 THEN Infinity ELSE all[done].root

\* C9 as stated: at every step of the descending sweep the list is sorted
\* by left endpoint, pairwise disjoint, and every member lies at or to the
\* right of the tracked right boundary.
C9_AsStated ==
    sw.pc = "loop" =>
        /\ SortedDisjoint(sw.intervals)
        /\ RightOf(sw.intervals, sw.right)

\* C9 amended: at every step of the descending sweep the list is sorted by
\* left endpoint, pairwise disjoint, and every member lies at or to the
\* right of the root swept last (and of the tracked right boundary whenever
\* the tracked sign is the sign the relation asks for); the final output is
\* a sorted list of pairwise disjoint intervals.
C9_SweepOrdered ==
    /\ sw.pc = "loop" =>
           /\ SortedDisjoint(sw.intervals)
           /\ RightOf(sw.intervals, LastSwept)
           /\ sw.sign = sw.eq_sign => RightOf(sw.intervals, sw.right)
    /\ (sw.pc = "done" /\ sw.rel \in Ordering) =>
           SortedDisjoint(sw.intervals)

\* every newly inserted interval lies to the left of all earlier ones
C9_InsertLeft ==
    [][(sw.pc = "loop" /\ Len(sw'.intervals) > Len(sw.intervals)) =>
           /\ Tail(sw'.intervals) = sw.intervals
           /\ \A j \in 1..Len(sw.intervals) :
                  Before(Head(sw'.intervals), sw.intervals[j])]_vars

C9_Witness ==
    /\ sw.pc = "loop" /\ sw.reals = <<>>
    /\ Len(sw.intervals) = MaxRoots
    /\ HasEven(sw.poly) /\ HasOdd(sw.poly)

(***************************************************************************)
(* solve_poly_inequalities                                                 *)
(***************************************************************************)
\* the polynomials of a system are the constants and the powers
\* LC * (x - r)^m of a linear factor, r an integer -MaxSysRoot .. MaxSysRoot
MaxSysRoot == 1
\* a system has at most MaxGroups groups of 1 .. MaxGroupLen entries
MaxGroups == 2
MaxGroupLen == 2

SysPolys ==
    {p \in Polys :
        /\ Len(p.roots) <= 1
        /\ \A j \in 1..Len(p.roots) :
               /\ ~Less(p.roots[j].root, Q(-MaxSysRoot, 1))
               /\ ~Less(Q(MaxSysRoot, 1), p.roots[j].root)}

SysPts == {Q(t, 2) : t \in (-2 * MaxSysRoot - 1)..(2 * MaxSysRoot + 1)}

\* the greater of two left ends / the lesser of two right ends, with the
\* openness of the end that binds
MaxLeft(I, J) ==
    IF Less(I.left, J.left) THEN [v |-> J.left, open |-> J.left_open]
    ELSE IF Less(J.left, I.left) THEN [v |-> I.left, open |-> I.left_open]
    ELSE [v |-> I.left, open |-> I.left_open \/ J.left_open]

MinRight(I, J) ==
    IF Less(I.right, J.right) THEN [v |-> I.right, open |-> I.right_open]
    ELSE IF Less(J.right, I.right) THEN [v |-> J.right, open |-> J.right_open]
    ELSE [v |-> I.right, open |-> I.right_open \/ J.right_open]

\* local_interval.intersect(global_interval)
intersect(I, J) ==
    IF I = EmptySet \/ J = EmptySet THEN EmptySet
    ELSE Interval(MaxLeft(I, J).v, MinRight(I, J).v,
                  MaxLeft(I, J).open, MinRight(I, J).open)

\* I and J overlap or touch, so that their union is one interval
Mergeable(I, J) ==
    \/ ~Before(I, J) /\ ~Before(J, I)
    \/ Same(I.right, J.left) /\ ~(I.right_open /\ J.left_open)
    \/ Same(J.right, I.left) /\ ~(J.right_open /\ I.left_open)

MinLeft(I, J) ==
    IF Less(I.left, J.left) THEN [v |-> I.left, open |-> I.left_open]
    ELSE IF Less(J.left, I.left) THEN [v |-> J.left, open |-> J.left_open]
    ELSE [v |-> I.left, open |-> I.left_open /\ J.left_open]

MaxRight(I, J) ==
    IF Less(I.right, J.right) THEN [v |-> J.right, open |-> J.right_open]
    ELSE IF Less(J.right, I.right) THEN [v |-> I.right, open |-> I.right_open]
    ELSE [v |-> I.right, open |-> I.right_open /\ J.right_open]

Hull(I, J) ==
    Interval(MinLeft(I, J).v, MaxRight(I, J).v,
             MinLeft(I, J).open, MaxRight(I, J).open)

RECURSIVE union(_, _)
\* result.union(interval): an interval set is a sorted list of disjoint
\* intervals no two of which touch; the new interval absorbs the members it
\* overlaps or touches
union(result, interval) ==
    IF interval = EmptySet THEN result
    ELSE IF result = <<>> THEN <<interval>>
    ELSE IF Mergeable(Head(result), interval)
    THEN union(Tail(result), Hull(Head(result), interval))
    ELSE IF Before(interval, Head(result)) THEN <<interval>> \o result
    ELSE <<Head(result)>> \o union(Tail(result), interval)

\* line 134: what solve_poly_inequality returns for the entries (poly, rel)
\* a system may hold
SysSolutions ==
    {solve_poly_inequality(poly, rel) : poly \in SysPolys, rel \in Relations}

RECURSIVE IntersectAll(_, _)
\* lines 142-146: one local interval against every global interval
IntersectAll(local_interval, global_intervals) ==
    IF global_intervals = <<>> THEN <<>>
    ELSE LET interval == intersect(local_interval, Head(global_intervals))
         IN  (IF interval # EmptySet THEN <<interval>> ELSE <<>>)
             \o IntersectAll(local_interval, Tail(global_intervals))

RECURSIVE IntersectLists(_, _)
\* lines 139-148: every local interval against every global interval
IntersectLists(local_intervals, global_intervals) ==
    IF local_intervals = <<>> THEN <<>>
    ELSE IntersectAll(Head(local_intervals), global_intervals)
         \o IntersectLists(Tail(local_intervals), global_intervals)

\* a variant of NextGlobal that keeps the last entry's intervals instead of
\* intersecting
NextGlobal_LastEntry(is_None, global_intervals, local_intervals) ==
    local_intervals

\* lines 136-148: the running intersection after one more entry
\* (is_None: global_intervals is still None, no entry was read)
NextGlobal(is_None, global_intervals, local_intervals) ==
    IF is_None THEN local_intervals
    ELSE IntersectLists(local_intervals, global_intervals)

RECURSIVE UnionAll(_, _)
\* lines 153-154
UnionAll(result, intervals) ==
    IF intervals = <<>> THEN result
    ELSE UnionAll(union(result, Head(intervals)), Tail(intervals))

(***************************************************************************)
(* The system solver, one entry per step.  The argument is read as the     *)
(* loops reach it: the number of groups is fixed at the call, the length   *)
(* of a group when the outer loop enters it, an entry when the inner loop  *)
(* reads it; groups and entries count what the two loops have yet to read. *)
(* hAll and hSome are history: the points of SysPts that lie in the        *)
(* individual solution of every entry of the current group read so far,    *)
(* and those that did so for all entries of an earlier group (for a group  *)
(* left by the break: of the entries read).                                *)
(***************************************************************************)
InitSys ==
    /\ sy \in {[pc |-> "groups", groups |-> n, entries |-> 0,
                is_None |-> TRUE, global_intervals |-> <<>>,
                result |-> <<>>,
                hAll |-> SysPts, hSome |-> {}] :
               n \in 0..MaxGroups}
    /\ sw = Idle /\ ab = Idle /\ ri = Idle /\ ln = Idle

\* lines 130-131: the outer loop enters a group
SysEnterGroup ==
    /\ sy.pc = "groups" /\ sy.groups > 0
    /\ \E n \in 1..MaxGroupLen :
           sy' = [sy EXCEPT !.pc = "entries", !.groups = sy.groups - 1,
                            !.entries = n,
                            !.is_None = TRUE, !.global_intervals = <<>>,
                            !.hAll = SysPts]
    /\ UNCHANGED <<sw, ab, ri, ln>>

\* lines 133-151: one pass of the inner loop, with its break
SysEntry ==
    /\ sy.pc = "entries" /\ sy.entries > 0
    /\ \E local_intervals \in SysSolutions :
           LET global_intervals ==
                   NextGlobal(sy.is_None, sy.global_intervals,
                              local_intervals)
           IN  sy' = [sy EXCEPT
                         !.is_None = FALSE,
                         !.global_intervals = global_intervals,
                         !.entries = sy.entries - 1,
                         !.hAll = {x \in sy.hAll :
                                      InList(local_intervals, x)},
                         !.pc = IF global_intervals = <<>>
                                   \/ sy.entries = 1
                                THEN "union" ELSE "entries"]
    /\ UNCHANGED <<sw, ab, ri, ln>>

\* lines 153-154: the group's intervals join the result
SysUnion ==
    /\ sy.pc = "union" /\ ~sy.is_None
    /\ sy' = [sy EXCEPT !.pc = "groups", !.entries = 0,
                        !.is_None = TRUE, !.global_intervals = <<>>,
                        !.result = UnionAll(sy.result, sy.global_intervals),
                        !.hSome = sy.hSome \cup sy.hAll, !.hAll = SysPts]
    /\ UNCHANGED <<sw, ab, ri, ln>>

\* line 156
SysReturn ==
    /\ sy.pc = "groups" /\ sy.groups = 0
    /\ sy' = [sy EXCEPT !.pc = "done"]
    /\ UNCHANGED <<sw, ab, ri, ln>>

NextSys ==
    \/ SysEnterGroup
    \/ SysEntry
    \/ SysUnion
    \/ SysReturn

SpecSys == InitSys /\ [][NextSys]_vars

C3_GroupContribution ==
    [][sy.pc = "union" =>
           \A x \in SysPts :
               InList(sy'.result, x) <=>
                   (InList(sy.result, x) \/ InList(sy.global_intervals, x))]_vars

C3_WitnessBreak ==
    /\ sy.pc = "union" /\ sy.entries > 0 /\ sy.result # <<>>

(***************************************************************************)
(* Expressions: Symbol (the generator), Integer, Add and Mul (with their   *)
(* args), Pow (base, exp) and Abs (one arg).                               *)
(***************************************************************************)
\* an input expression applies at most MaxOps operations to the generator
MaxOps == 3
\* expressions are evaluated at the integers -MaxX .. MaxX
MaxX == 2

Sym == [kind |-> "Symbol"]

Integer(v) == [kind |-> "Integer", v |-> v]

Add(a, b) == [kind |-> "Add", args |-> <<a, b>>]

Mul(a, b) == [kind |-> "Mul", args |-> <<a, b>>]

Pow(b, n) == [kind |-> "Pow", base |-> b, exp |-> n]

Abs(a) == [kind |-> "Abs", args |-> <<a>>]

\* -expr
Neg(e) == Mul(Integer(-1), e)

\* op(expr, _expr) of line 260, op the class of the node
Op(kind, a, b) == [kind |-> kind, args |-> <<a, b>>]

\* Relational(lhs, rhs, rel_op); Ge and Lt are its classes for >= and <
Relational(lhs, rhs, rel_op) == [lhs |-> lhs, rhs |-> rhs, rel_op |-> rel_op]

Ge(lhs, rhs) == Relational(lhs, rhs, ">=")

Lt(lhs, rhs) == Relational(lhs, rhs, "<")

\* the constants, the exponents and the second operands of input expressions
Consts == {-1, 2}

Exps == {-1, 2}

Sides == {Integer(c) : c \in Consts} \cup {Sym, Abs(Sym)}

Grow(e) ==
    {Abs(e)} \cup {Pow(e, n) : n \in Exps}
    \cup {Add(e, s) : s \in Sides} \cup {Mul(s, e) : s \in Sides}

RECURSIVE Exprs(_)
Exprs(k) ==
    IF k = 0 THEN {Sym}
    ELSE Exprs(k - 1) \cup UNION {Grow(e) : e \in Exprs(k - 1)}

RECURSIVE IntPow(_, _)
IntPow(b, n) == IF n = 0 THEN 1 ELSE b * IntPow(b, n - 1)

RECURSIVE Eval(_, _)
\* the value of an expression (with no negative exponent) at the integer x
Eval(e, x) ==
    CASE e.kind = "Symbol" -> x
      [] e.kind = "Integer" -> e.v
      [] e.kind = "Add" -> Eval(e.args[1], x) + Eval(e.args[2], x)
      [] e.kind = "Mul" -> Eval(e.args[1], x) * Eval(e.args[2], x)
      [] e.kind = "Pow" -> IntPow(Eval(e.base, x), e.exp)
      [] e.kind = "Abs" ->
            LET v == Eval(e.args[1], x) IN IF v < 0 THEN -v ELSE v

\* a rel b
Compare(a, rel, b) ==
    CASE rel = ">" -> a > b
      [] rel = ">=" -> a >= b
      [] rel = "<" -> a < b
      [] rel = "<=" -> a <= b
      [] rel = "==" -> a = b
      [] rel = "!=" -> a # b

\* a relational holds at x
Holds(r, x) == Compare(Eval(r.lhs, x), r.rel_op, Eval(r.rhs, x))

(***************************************************************************)
(* reduce_abs_inequality                                                   *)
(***************************************************************************)
Raised(what) == [err |-> what, exprs |-> <<>>]

Scanned(exprs) == [err |-> "", exprs |-> exprs]

RECURSIVE CrossOne(_, _, _)
\* lines 259-260: one alternative against every alternative of the operand
CrossOne(op, alt, _exprs) ==
    IF _exprs = <<>> THEN <<>>
    ELSE <<[expr |-> Op(op, alt.expr, Head(_exprs).expr),
            conds |-> alt.conds \o Head(_exprs).conds]>>
         \o CrossOne(op, alt, Tail(_exprs))

RECURSIVE Cross(_, _, _)
\* lines 256-262
Cross(op, exprs, _exprs) ==
    IF exprs = <<>> THEN <<>>
    ELSE CrossOne(op, Head(exprs), _exprs) \o Cross(op, Tail(exprs), _exprs)

RECURSIVE PowAlts(_, _)
\* lines 271-272
PowAlts(_exprs, n) ==
    IF _exprs = <<>> THEN <<>>
    ELSE <<[expr |-> Pow(Head(_exprs).expr, n), conds |-> Head(_exprs).conds]>>
         \o PowAlts(Tail(_exprs), n)

RECURSIVE AbsAlts_NoNegate(_)
\* a variant of AbsAlts whose second branch keeps expr where line 278
\* negates it
AbsAlts_NoNegate(_exprs) ==
    IF _exprs = <<>> THEN <<>>
    ELSE LET expr == Head(_exprs).expr
             conds == Head(_exprs).conds
         IN  <<[expr |-> expr, conds |-> conds \o <<Ge(expr, Integer(0))>>],
               [expr |-> expr, conds |-> conds \o <<Lt(expr, Integer(0))>>]>>
             \o AbsAlts_NoNegate(Tail(_exprs))

RECURSIVE AbsAlts(_)
\* lines 276-278
AbsAlts(_exprs) ==
    IF _exprs = <<>> THEN <<>>
    ELSE LET expr == Head(_exprs).expr
             conds == Head(_exprs).conds
         IN  <<[expr |-> expr, conds |-> conds \o <<Ge(expr, Integer(0))>>],
               [expr |-> Neg(expr), conds |-> conds \o <<Lt(expr, Integer(0))>>]>>
             \o AbsAlts(Tail(_exprs))

RECURSIVE _bottom_up_scan(_)
RECURSIVE ScanArgs(_, _, _)
\* lines 250-262: the operands of an Add or a Mul, left to right
ScanArgs(op, args, exprs) ==
    IF args = <<>> THEN Scanned(exprs)
    ELSE LET r == _bottom_up_scan(Head(args))
         IN  IF r.err # "" THEN r
             ELSE ScanArgs(op, Tail(args),
                           IF exprs = <<>> THEN r.exprs
                           ELSE Cross(op, exprs, r.exprs))

\* lines 244-282
_bottom_up_scan(expr) ==
    IF expr.kind \in {"Add", "Mul"} THEN ScanArgs(expr.kind, expr.args, <<>>)
    ELSE IF expr.kind = "Pow"
    THEN IF expr.exp < 0 THEN Raised("ValueError")
         ELSE LET r == _bottom_up_scan(expr.base)
              IN  IF r.err # "" THEN r
                  ELSE Scanned(PowAlts(r.exprs, expr.exp))
    ELSE IF expr.kind = "Abs"
    THEN LET r == _bottom_up_scan(expr.args[1])
         IN  IF r.err # "" THEN r ELSE Scanned(AbsAlts(r.exprs))
    ELSE Scanned(<<[expr |-> expr, conds |-> <<>>]>>)

\* line 286
mapping(rel) == IF rel = "<" THEN ">" ELSE ">="

\* lines 290-293: the inequality of one branch
BranchInequality(expr, rel) ==
    IF rel \notin {"<", "<="} THEN Relational(expr, Integer(0), rel)
    ELSE Relational(Neg(expr), Integer(0), mapping(rel))

RECURSIVE Assemble(_, _)
\* lines 289-295
Assemble(exprs, rel) ==
    IF exprs = <<>> THEN <<>>
    ELSE <<<<BranchInequality(Head(exprs).expr, rel)>> \o Head(exprs).conds>>
         \o Assemble(Tail(exprs), rel)

InitAbs ==
    /\ ab \in {[pc |-> "call", expr |-> e, rel |-> r, real |-> q,
                exprs |-> <<>>, inequalities |-> <<>>, ret |-> "none"] :
               e \in Exprs(MaxOps), r \in Relations, q \in BOOLEAN}
    /\ sw = Idle /\ sy = Idle /\ ri = Idle /\ ln = Idle

\* lines 241-242: the generator is not known to be real
AbsNonReal ==
    /\ ab.pc = "call" /\ ~ab.real
    /\ ab' = [ab EXCEPT !.pc = "done", !.ret = "NotImplementedError"]
    /\ UNCHANGED <<sw, sy, ri, ln>>

\* line 284, the scan succeeding
AbsScan ==
    /\ ab.pc = "call" /\ ab.real
    /\ _bottom_up_scan(ab.expr).err = ""
    /\ ab' = [ab EXCEPT !.pc = "scanned",
                        !.exprs = _bottom_up_scan(ab.expr).exprs]
    /\ UNCHANGED <<sw, sy, ri, ln>>

\* line 284, the scan raising (line 267)
AbsScanRaise ==
    /\ ab.pc = "call" /\ ab.real
    /\ _bottom_up_scan(ab.expr).err # ""
    /\ ab' = [ab EXCEPT !.pc = "done", !.ret = _bottom_up_scan(ab.expr).err]
    /\ UNCHANGED <<sw, sy, ri, ln>>

\* lines 286-297: the groups are built and handed to
\* reduce_poly_inequalities
AbsReduce ==
    /\ ab.pc = "scanned"
    /\ ab' = [ab EXCEPT !.pc = "done",
                        !.inequalities = Assemble(ab.exprs, ab.rel),
                        !.ret = "reduce_poly_inequalities"]
    /\ UNCHANGED <<sw, sy, ri, ln>>

NextAbs ==
    \/ AbsNonReal
    \/ AbsScan
    \/ AbsScanRaise
    \/ AbsReduce

SpecAbs == InitAbs /\ [][NextAbs]_vars

Xs == -MaxX..MaxX

AllHold(conds, x) == \A j \in 1..Len(conds) : Holds(conds[j], x)

\* C4: the system handed to the polynomial reducer has one group per
\* branch, the branch inequality followed by the branch's sign conditions;
\* at every value of the generator exactly one branch has all its sign
\* conditions true, and there the branch expression has the value of the
\* original one; for < and <= the branch inequality is > and >= on the
\* negated branch expression; so some group holds entirely at x iff
\* expr rel 0 holds at x.
C4_CaseSplitExact ==
    (ab.pc = "done" /\ ab.ret = "reduce_poly_inequalities") =>
        /\ Len(ab.inequalities) = Len(ab.exprs)
        /\ \A j \in 1..Len(ab.exprs) :
               LET e == ab.exprs[j].expr
               IN  /\ Tail(ab.inequalities[j]) = ab.exprs[j].conds
                   /\ Head(ab.inequalities[j]) =
                          IF ab.rel = "<" THEN Relational(Neg(e), Integer(0), ">")
                          ELSE IF ab.rel = "<="
                          THEN Relational(Neg(e), Integer(0), ">=")
                          ELSE Relational(e, Integer(0), ab.rel)
        /\ \A x \in Xs :
               /\ Cardinality({j \in 1..Len(ab.exprs) :
                                  AllHold(ab.exprs[j].conds, x)}) = 1
               /\ \A j \in 1..Len(ab.exprs) :
                      AllHold(ab.exprs[j].conds, x) =>
                          Eval(ab.exprs[j].expr, x) = Eval(ab.expr, x)
               /\ (\E j \in 1..Len(ab.inequalities) :
                      AllHold(ab.inequalities[j], x))
                  <=> Compare(Eval(ab.expr, x), ab.rel, 0)

\* a sum of two absolute values, one of them nested: four branches
C4_Witness ==
    /\ ab.pc = "done" /\ ab.ret = "reduce_poly_inequalities"
    /\ ab.rel = "<"
    /\ ab.expr = Add(Abs(Add(Sym, Integer(-1))), Abs(Sym))
    /\ Len(ab.inequalities) = 4

C4_WitnessNested ==
    /\ ab.pc = "done" /\ ab.ret = "reduce_poly_inequalities"
    /\ ab.expr = Abs(Add(Abs(Sym), Integer(-1)))
    /\ Len(ab.inequalities) = 4

(***************************************************************************)
(* Formulas: relations between terms, And, Or, true and false.  A term is  *)
(* the generator, its real part, its imaginary part, or a number.          *)
(***************************************************************************)
Gen == [t |-> "gen"]

re(g) == [t |-> "re"]

im(g) == [t |-> "im"]

Num(q) == [t |-> "num", q |-> q]

Rel(lhs, rel_op, rhs) == [op |-> rel_op, lhs |-> lhs, rhs |-> rhs]

Eq(lhs, rhs) == Rel(lhs, "==", rhs)

False == [op |-> "false"]

True == [op |-> "true"]

\* And(*args), Or(*args): no argument gives the neutral element, one
\* argument gives the argument
And(args) ==
    IF args = <<>> THEN True
    ELSE IF Len(args) = 1 THEN args[1]
    ELSE [op |-> "And", args |-> args]

Or(args) ==
    IF args = <<>> THEN False
    ELSE IF Len(args) = 1 THEN args[1]
    ELSE [op |-> "Or", args |-> args]

\* interval.as_relational(term)
IntervalAsRelational(I, term) ==
    IF Same(I.left, I.right) THEN Eq(term, Num(I.left))
    ELSE And((IF I.left = NegativeInfinity THEN <<>>
              ELSE <<Rel(Num(I.left),
                         IF I.left_open THEN "<" ELSE "<=", term)>>)
             \o (IF I.right = Infinity THEN <<>>
                 ELSE <<Rel(term, IF I.right_open THEN "<" ELSE "<=",
                            Num(I.right))>>))

RECURSIVE AsRelationalAll(_, _)
AsRelationalAll(intervals, term) ==
    IF intervals = <<>> THEN <<>>
    ELSE <<IntervalAsRelational(Head(intervals), term)>>
         \o AsRelationalAll(Tail(intervals), term)

\* solution.as_relational(term): the empty set is false, a union is an Or
as_relational(solution, term) == Or(AsRelationalAll(solution, term))

\* the value of a term at the complex point z = z.re + i * z.im (the
\* generator itself is compared only where it is real)
TermVal(term, z) ==
    CASE term.t = "gen" -> z.re
      [] term.t = "re" -> z.re
      [] term.t = "im" -> Q(z.im, 1)
      [] term.t = "num" -> term.q

CompareQ(a, rel, b) ==
    CASE rel = ">" -> Less(b, a)
      [] rel = ">=" -> ~Less(a, b)
      [] rel = "<" -> Less(a, b)
      [] rel = "<=" -> ~Less(b, a)
      [] rel = "==" -> Same(a, b)
      [] rel = "!=" -> ~Same(a, b)

RECURSIVE HoldsAt(_, _)
\* the formula holds at z
HoldsAt(f, z) ==
    CASE f.op = "true" -> TRUE
      [] f.op = "false" -> FALSE
      [] f.op = "And" -> \A j \in 1..Len(f.args) : HoldsAt(f.args[j], z)
      [] f.op = "Or" -> \E j \in 1..Len(f.args) : HoldsAt(f.args[j], z)
      [] OTHER -> CompareQ(TermVal(f.lhs, z), f.op, TermVal(f.rhs, z))

\* the formula carries the conjunct im(gen) == 0
HasImZero(f) ==
    /\ f.op = "And"
    /\ \E j \in 1..Len(f.args) : f.args[j] = Eq(im(Gen), Num(Q(0, 1)))

(***************************************************************************)
(* Linear inequalities a*x + b rel c*x + d with integer coefficients.      *)
(***************************************************************************)
\* the coefficients of either side are -MaxCoef .. MaxCoef
MaxCoef == 3

Coefs == -MaxCoef..MaxCoef

LinExprs == [a : Coefs, b : Coefs]

\* lhs - rhs
Minus(lhs, rhs) == [a |-> lhs.a - rhs.a, b |-> lhs.b - rhs.b]

Abs0(n) == IF n < 0 THEN -n ELSE n

RECURSIVE GCD(_, _)
GCD(m, n) == IF n = 0 THEN m ELSE GCD(n, m % n)

\* the rational n/d (d # 0) in lowest terms with a positive denominator
Rat(n, d) ==
    LET g == GCD(Abs0(n), Abs0(d))
        sg == IF d < 0 THEN -1 ELSE 1
    IN  Q(sg * (n \div g), sg * (d \div g))

\* Poly(expr, gen) of a*x + b: the leading coefficient and the real roots
PolyOfLin(expr) ==
    IF expr.a # 0
    THEN [LC |-> expr.a,
          roots |-> <<[root |-> Rat(-expr.b, expr.a), mult |-> 1]>>]
    ELSE [LC |-> expr.b, roots |-> <<>>]

\* p.degree()
degree(expr) == IF expr.a # 0 THEN 1 ELSE 0

\* a variant of _solve_inequality that keeps x on the left for a < 0
_solve_inequality_NoFlip(ie, s) ==
    IF ie.rel_op \notin {">", ">=", "<", "<="}
    THEN [raised |-> "NotImplementedError", value |-> False]
    ELSE LET expr == Minus(ie.lhs, ie.rhs)
         IN  IF degree(expr) # 1
             THEN [raised |-> "NotImplementedError", value |-> False]
             ELSE [raised |-> "",
                   value |-> Rel(s, ie.rel_op, Num(Rat(-expr.b, expr.a)))]

\* lines 323-339: the relation returned, or the error raised
_solve_inequality(ie, s) ==
    IF ie.rel_op \notin {">", ">=", "<", "<="}
    THEN [raised |-> "NotImplementedError", value |-> False]
    ELSE LET expr == Minus(ie.lhs, ie.rhs)
         IN  IF degree(expr) # 1
             THEN [raised |-> "NotImplementedError", value |-> False]
             ELSE IF expr.a > 0
             THEN [raised |-> "",
                   value |-> Rel(s, ie.rel_op, Num(Rat(-expr.b, expr.a)))]
             ELSE IF expr.a < 0
             THEN [raised |-> "",
                   value |-> Rel(Num(Rat(-expr.b, expr.a)), ie.rel_op, s)]
             ELSE [raised |-> "NotImplementedError", value |-> False]

RECURSIVE GroupIntervals(_, _, _)
\* lines 131-151 for one group: the running intersection over its entries,
\* left at the first empty one
GroupIntervals(_polys, is_None, global_intervals) ==
    IF _polys = <<>> THEN global_intervals
    ELSE LET next == NextGlobal(is_None, global_intervals,
                         solve_poly_inequality(Head(_polys).poly,
                                               Head(_polys).rel))
         IN  IF next = <<>> THEN next
             ELSE GroupIntervals(Tail(_polys), FALSE, next)

RECURSIVE SolveGroups(_, _)
\* lines 130-154
SolveGroups(polys, result) ==
    IF polys = <<>> THEN result
    ELSE SolveGroups(Tail(polys),
                     UnionAll(result, GroupIntervals(Head(polys), TRUE, <<>>)))

\* lines 128-156, every group holding an entry
solve_poly_inequalities(polys) == SolveGroups(polys, <<>>)

RECURSIVE PolysOf(_)
\* lines 181-200 for entries (expr, rel) with integer coefficients
PolysOf(_exprs) ==
    IF _exprs = <<>> THEN <<>>
    ELSE <<[poly |-> PolyOfLin(Head(_exprs).expr), rel |-> Head(_exprs).rel]>>
         \o PolysOf(Tail(_exprs))

RECURSIVE GroupsOf(_)
\* lines 178-202
GroupsOf(exprs) ==
    IF exprs = <<>> THEN <<>>
    ELSE <<PolysOf(Head(exprs))>> \o GroupsOf(Tail(exprs))

\* a variant of reduce_poly_inequalities without lines 212-217: the formula
\* is stated on gen whatever is known of it
reduce_poly_inequalities_Bare(exprs, gen, real) ==
    as_relational(solve_poly_inequalities(GroupsOf(exprs)), gen)

\* lines 204-219, relational=True: real is ask(Q.real(gen), assume)
reduce_poly_inequalities(exprs, gen, real) ==
    LET solution == solve_poly_inequalities(GroupsOf(exprs))
    IN  IF ~real
        THEN [op |-> "And",
              args |-> <<as_relational(solution, re(gen)),
                         Eq(im(gen), Num(Q(0, 1)))>>]
        ELSE as_relational(solution, gen)

\* lines 367-426 for one relational inequality in the generator
GeneralPath(ie, real) ==
    LET expr == Minus(ie.lhs, ie.rhs)
    IN  IF expr.a = 0 THEN False
        ELSE And(<<reduce_poly_inequalities(
                       <<<<[expr |-> expr, rel |-> ie.rel_op]>>>>, Gen, real)>>)

\* lines 357-426 for one relational inequality in the generator
reduce_inequalities(ie, real, symbols) ==
    IF Len(symbols) = 1 /\ _solve_inequality(ie, symbols[1]).raised = ""
    THEN _solve_inequality(ie, symbols[1]).value
    ELSE GeneralPath(ie, real)

InitLin ==
    /\ ln \in {[pc |-> "start",
                ie |-> [lhs |-> l, rhs |-> r, rel_op |-> op], real |-> q,
                with_symbol |-> False, without |-> False] :
               l \in LinExprs, r \in LinExprs, op \in Relations,
               q \in BOOLEAN}
    /\ sw = Idle /\ sy = Idle /\ ab = Idle /\ ri = Idle

\* reduce_inequalities(ie, assume, [x])
LinCallWithSymbol ==
    /\ ln.pc = "start"
    /\ ln' = [ln EXCEPT !.pc = "first",
                        !.with_symbol =
                            reduce_inequalities(ln.ie, ln.real, <<Gen>>)]
    /\ UNCHANGED <<sw, sy, ab, ri>>

\* reduce_inequalities(ie, assume, [])
LinCallWithout ==
    /\ ln.pc = "first"
    /\ ln' = [ln EXCEPT !.pc = "done",
                        !.without =
                            reduce_inequalities(ln.ie, ln.real, <<>>)]
    /\ UNCHANGED <<sw, sy, ab, ri>>

NextLin ==
    \/ LinCallWithSymbol
    \/ LinCallWithout

SpecLin == InitLin /\ [][NextLin]_vars

\* the rationals n/d with a small numerator and a denominator that a root
\* -b/a of lhs - rhs can have
LinPts ==
    {Q(n, d) : n \in (-2 * MaxCoef - 1)..(2 * MaxCoef + 1),
               d \in 1..(2 * MaxCoef)}

RealPt(v) == [re |-> v, im |-> 0]

\* a*v + b rel 0 at the rational v
LinHolds(expr, rel, v) == Compare(expr.a * v.n + expr.b * v.d, rel, 0)

LinA == Minus(ln.ie.lhs, ln.ie.rhs).a

LinB == Minus(ln.ie.lhs, ln.ie.rhs).b

\* the fast path applies: an ordering relation of degree exactly 1
LinFast == ln.ie.rel_op \in Ordering /\ LinA # 0

\* C7: one ordering inequality and one symbol x, lhs - rhs = a*x + b of
\* degree 1: the fast path returns x rel -b/a for a > 0 and the flipped
\* relation, -b/a rel x, for a < 0, and the returned relation has the
\* solution set of the input.
C7_FastPathIsolates ==
    (ln.pc \in {"first", "done"} /\ LinFast) =>
        /\ LinA > 0 =>
               ln.with_symbol = Rel(Gen, ln.ie.rel_op, Num(Rat(-LinB, LinA)))
        /\ LinA < 0 =>
               ln.with_symbol = Rel(Num(Rat(-LinB, LinA)), ln.ie.rel_op, Gen)
        /\ \A v \in LinPts :
               HoldsAt(ln.with_symbol, RealPt(v))
                   <=> LinHolds(Minus(ln.ie.lhs, ln.ie.rhs), ln.ie.rel_op, v)

\* 0 <= x + 3 gives -3 <= x
C7_Witness ==
    /\ ln.pc = "done"
    /\ ln.ie = [lhs |-> [a |-> 0, b |-> 0], rhs |-> [a |-> 1, b |-> 3],
                rel_op |-> "<="]
    /\ ln.with_symbol = Rel(Num(Q(-3, 1)), "<=", Gen)

\* the two formulas agree at every real value of x
SameOnReals ==
    \A v \in LinPts :
        HoldsAt(ln.with_symbol, RealPt(v)) <=> HoldsAt(ln.without, RealPt(v))

\* C10 as stated: the fast-path formula and the general-path formula denote
\* the same solution set, and when x is not asserted real both carry the
\* restriction im(x) == 0.
C10_AsStated ==
    (ln.pc = "done" /\ LinFast) =>
        /\ SameOnReals
        /\ ~ln.real => HasImZero(ln.with_symbol) /\ HasImZero(ln.without)

\* C10 amended: the two formulas agree at every real value of x; when x is
\* not asserted real only the general-path formula carries im(x) == 0 (and
\* is stated on re(x), so that it holds at no non-real point), the fast
\* path returning the bare relation on x; when x is asserted real neither
\* carries it.
C10_FastVsGeneral ==
    (ln.pc = "done" /\ LinFast) =>
        /\ SameOnReals
        /\ ~HasImZero(ln.with_symbol)
        /\ HasImZero(ln.without) <=> ~ln.real
        /\ ~ln.real =>
               \A v \in LinPts : ~HoldsAt(ln.without, [re |-> v, im |-> 1])

C10_Witness ==
    /\ ln.pc = "done" /\ LinFast /\ ~ln.real /\ LinA < 0
    /\ HasImZero(ln.without)
    /\ \E v \in LinPts : HoldsAt(ln.without, RealPt(v))

(***************************************************************************)
(* reduce_inequalities, on entries described by what the dispatcher reads  *)
(* of them: the class of the entry and, for a relational or an expression, *)
(* its relation, the symbols of lhs - rhs and the functions in it.         *)
(***************************************************************************)
\* a system has 1 .. MaxIneqs entries
MaxIneqs == 2
\* the degree the polynomial engine reports is 0 .. MaxDeg
MaxDeg == 2

Symbols == {"x", "y"}

\* no function, only Abs, some other function
Funcs == {"none", "abs", "other"}

\* Python False and True, an AppliedPredicate, a Relational, another Expr
Kinds == {"false", "true", "pred", "rel", "expr"}

NoDetail == [rel_op |-> "", gens |-> {}, funcs |-> "none", sym |-> ""]

DetailsOf(kind) ==
    CASE kind \in {"false", "true"} -> {NoDetail}
      [] kind = "pred" ->
            {[NoDetail EXCEPT !.sym = g] : g \in Symbols}
      [] kind = "rel" ->
            {[rel_op |-> op, gens |-> gs, funcs |-> f, sym |-> ""] :
                op \in Relations, gs \in SUBSET Symbols, f \in Funcs}
      [] kind = "expr" ->
            {[rel_op |-> "", gens |-> gs, funcs |-> f, sym |-> ""] :
                gs \in SUBSET Symbols, f \in Funcs}

RECURSIVE KindLists(_)
KindLists(n) ==
    IF n = 0 THEN {<<>>}
    ELSE {<<k>> \o t : k \in Kinds, t \in KindLists(n - 1)}

\* the symbols argument: only its length and its first entry are read
SymbolLists == {<<>>, <<"x">>, <<"y">>, <<"x", "y">>}

\* what Poly(expr, s) reports of an entry: the degree in s and the sign of
\* the leading coefficient as is_positive / is_negative know it
PolyAnswers(d, s) ==
    IF s \notin d.gens THEN {[deg |-> 0, a |-> "unknown"]}
    ELSE {[deg |-> n, a |-> sg] :
             n \in 1..MaxDeg,
             sg \in IF d.gens = {s} /\ d.funcs = "none"
                    THEN {"positive", "negative"}
                    ELSE {"positive", "negative", "unknown"}}

NoExc == [type |-> "", msg |-> "", from |-> ""]

Exc(type, msg, from) == [type |-> type, msg |-> msg, from |-> from]

\* the frame after a raise statement: the error is in flight (raised keeps
\* every error raised during the call)
Raise(frame, exc) ==
    [frame EXCEPT !.pc = "unwind", !.exc = exc, !.raised = @ \cup {exc}]

\* a variant of Caught whose handler covers the whole body of the function
Caught_Anywhere(exc) == exc.type = "NotImplementedError"

\* lines 362-365: the try around the fast path catches NotImplementedError
Caught(exc) == exc.from = "fast" /\ exc.type = "NotImplementedError"

\* a variant of SolveOutcome without the degree test of line 331
SolveOutcome_AnyDegree(d, s, p) ==
    IF d.rel_op \notin {">", ">=", "<", "<="} THEN "NotImplementedError"
    ELSE IF p.a = "positive" THEN "s rel -b/a"
    ELSE IF p.a = "negative" THEN "-b/a rel s"
    ELSE "NotImplementedError"

\* lines 327-339 on what the engine reports: the relation returned, or the
\* error raised
SolveOutcome(d, s, p) ==
    IF d.rel_op \notin {">", ">=", "<", "<="} THEN "NotImplementedError"
    ELSE IF p.deg # 1 THEN "NotImplementedError"
    ELSE IF p.a = "positive" THEN "s rel -b/a"
    ELSE IF p.a = "negative" THEN "-b/a rel s"
    ELSE "NotImplementedError"

\* ask(Q.real(gen), assume), assume the conjunction of the caller's
\* assumptions and the predicates met in the system (lines 410-415)
AskReal(gen, assume) == gen \in assume

InitDisp ==
    /\ ri \in {[pc |-> "call", is_list |-> l, kinds |-> ks, first |-> d,
                symbols |-> ss, assume |-> as,
                i |-> 0, fast |-> "none", p |-> [deg |-> 0, a |-> "unknown"],
                exc |-> NoExc, raised |-> {},
                poly_part |-> [g \in Symbols |-> <<>>],
                abs_part |-> [g \in Symbols |-> <<>>],
                extra_assume |-> {}, reduced |-> <<>>,
                ret |-> [kind |-> "none"]] :
               l \in BOOLEAN, ss \in SymbolLists, as \in SUBSET Symbols,
               ks \in UNION {KindLists(n) : n \in 1..MaxIneqs},
               d \in UNION {DetailsOf(k) : k \in Kinds}}
    /\ ri.first \in DetailsOf(ri.kinds[1])
    /\ ~ri.is_list => Len(ri.kinds) = 1
    /\ sw = Idle /\ sy = Idle /\ ab = Idle /\ ln = Idle

\* lines 357-358: a bare inequality becomes a one-element list
DispEnter ==
    /\ ri.pc = "call"
    /\ ri' = [ri EXCEPT !.pc = "guard", !.is_list = TRUE]
    /\ UNCHANGED <<sw, sy, ab, ln>>

FastGuardLens == Len(ri.kinds) = 1 /\ Len(ri.symbols) = 1

\* lines 360-361: the guard reads is_Relational of a Python bool
DispGuardCrash ==
    /\ ri.pc = "guard" /\ FastGuardLens
    /\ ri.kinds[1] \in {"false", "true"}
    /\ ri' = Raise(ri, Exc("AttributeError", "is_Relational", "guard"))
    /\ UNCHANGED <<sw, sy, ab, ln>>

\* lines 360-361: the guard is false
DispSkipFast ==
    /\ ri.pc = "guard"
    /\ ~FastGuardLens \/ ri.kinds[1] \in {"pred", "expr"}
    /\ ri' = [ri EXCEPT !.pc = "loop"]
    /\ UNCHANGED <<sw, sy, ab, ln>>

\* lines 362-363 with _solve_inequality (lines 323-339)
DispFastPath ==
    /\ ri.pc = "guard" /\ FastGuardLens /\ ri.kinds[1] = "rel"
    /\ \E p \in PolyAnswers(ri.first, ri.symbols[1]) :
           LET out == SolveOutcome(ri.first, ri.symbols[1], p)
           IN  IF out = "NotImplementedError"
               THEN ri' = Raise([ri EXCEPT !.p = p,
                                            !.fast = "NotImplementedError"],
                                Exc("NotImplementedError", "", "fast"))
               ELSE ri' = [ri EXCEPT !.pc = "done", !.p = p,
                              !.fast = "returned",
                              !.ret = [kind |-> "value", by |-> "fast",
                                       v |-> [val |-> "relation",
                                              form |-> out,
                                              rel_op |-> ri.first.rel_op]]]
    /\ UNCHANGED <<sw, sy, ab, ln>>

\* lines 364-365: the handler swallows the error, the general path follows
DispExcept ==
    /\ ri.pc = "unwind" /\ Caught(ri.exc)
    /\ ri' = [ri EXCEPT !.pc = "loop", !.exc = NoExc]
    /\ UNCHANGED <<sw, sy, ab, ln>>

\* no handler: the error leaves reduce_inequalities
DispPropagate ==
    /\ ri.pc = "unwind" /\ ~Caught(ri.exc)
    /\ ri' = [ri EXCEPT !.pc = "done",
                        !.ret = [kind |-> "error", by |-> ri.exc.from,
                                 v |-> ri.exc]]
    /\ UNCHANGED <<sw, sy, ab, ln>>

LoopAt(kinds) ==
    /\ ri.pc = "loop" /\ ri.i < Len(ri.kinds)
    /\ ri.kinds[ri.i + 1] \in kinds

\* lines 370-372
DispLoopFalse ==
    /\ LoopAt({"false"})
    /\ ri' = [ri EXCEPT !.pc = "done", !.i = ri.i + 1,
                        !.ret = [kind |-> "value", by |-> "general",
                                 v |-> [val |-> "False"]]]
    /\ UNCHANGED <<sw, sy, ab, ln>>

\* lines 373-374
DispLoopTrue ==
    /\ LoopAt({"true"})
    /\ ri' = [ri EXCEPT !.i = ri.i + 1]
    /\ UNCHANGED <<sw, sy, ab, ln>>

\* what the loop reads of entry i + 1: the first entry is the one the fast
\* path saw, a later one is read here for the first time
Read(d) ==
    IF ri.i = 0 THEN d = ri.first
    ELSE d \in DetailsOf(ri.kinds[ri.i + 1])

\* lines 376-378
DispLoopPred ==
    /\ LoopAt({"pred"})
    /\ \E d \in DetailsOf("pred") :
           /\ Read(d)
           /\ ri' = [ri EXCEPT !.i = ri.i + 1,
                               !.extra_assume = ri.extra_assume \cup {d.sym}]
    /\ UNCHANGED <<sw, sy, ab, ln>>

\* line 381 / line 383
RelOf(kind, d) == IF kind = "rel" THEN d.rel_op ELSE "=="

\* lines 380-408
DispLoopExpr ==
    /\ LoopAt({"rel", "expr"})
    /\ \E d \in DetailsOf(ri.kinds[ri.i + 1]) :
           /\ Read(d)
           /\ LET rel == RelOf(ri.kinds[ri.i + 1], d)
                  gen == CHOOSE g \in d.gens : TRUE
              IN  IF d.gens = {}
                  THEN ri' = [ri EXCEPT !.pc = "done", !.i = ri.i + 1,
                                 !.ret = [kind |-> "value", by |-> "general",
                                          v |-> [val |-> "False"]]]
                  ELSE IF Cardinality(d.gens) # 1
                  THEN ri' = Raise([ri EXCEPT !.i = ri.i + 1],
                                   Exc("NotImplementedError",
                                       "only univariate inequalities are supported",
                                       "general"))
                  ELSE IF d.funcs = "none"
                  THEN ri' = [ri EXCEPT !.i = ri.i + 1,
                                 !.poly_part[gen] = Append(@, rel)]
                  ELSE IF d.funcs = "abs"
                  THEN ri' = [ri EXCEPT !.i = ri.i + 1,
                                 !.abs_part[gen] = Append(@, rel)]
                  ELSE ri' = Raise([ri EXCEPT !.i = ri.i + 1],
                                   Exc("NotImplementedError",
                                       "can't reduce", "general"))
    /\ UNCHANGED <<sw, sy, ab, ln>>

\* lines 410-418
DispCombine ==
    /\ ri.pc = "loop" /\ ri.i = Len(ri.kinds)
    /\ ri' = [ri EXCEPT !.pc = "poly",
                        !.assume = ri.assume \cup ri.extra_assume]
    /\ UNCHANGED <<sw, sy, ab, ln>>

\* lines 420-421: one bucket of poly_part, in the order the dictionary
\* yields them; reduce_poly_inequalities raises over a domain that is
\* neither ZZ nor QQ (line 198)
DispReducePoly ==
    /\ ri.pc = "poly"
    /\ \E gen \in {g \in Symbols : ri.poly_part[g] # <<>>} :
           \E domain_ok \in BOOLEAN :
               IF domain_ok
               THEN ri' = [ri EXCEPT
                              !.poly_part[gen] = <<>>,
                              !.reduced = Append(@,
                                  [how |-> "reduce_poly_inequalities",
                                   gen |-> gen, exprs |-> ri.poly_part[gen],
                                   real |-> AskReal(gen, ri.assume)])]
               ELSE ri' = Raise(ri, Exc("NotImplementedError",
                                  "inequality solving is not supported over",
                                  "general"))
    /\ UNCHANGED <<sw, sy, ab, ln>>

\* line 423 reached
DispPolyDone ==
    /\ ri.pc = "poly" /\ \A g \in Symbols : ri.poly_part[g] = <<>>
    /\ ri' = [ri EXCEPT !.pc = "abs"]
    /\ UNCHANGED <<sw, sy, ab, ln>>

\* lines 423-424: one bucket of abs_part; reduce_abs_inequality raises for
\* a generator not known real (line 242), for a bad exponent (line 267) and,
\* in reduce_poly_inequalities, for the domain (line 198)
DispReduceAbs ==
    /\ ri.pc = "abs"
    /\ \E gen \in {g \in Symbols : ri.abs_part[g] # <<>>} :
           IF ~AskReal(gen, ri.assume)
           THEN ri' = Raise(ri, Exc("NotImplementedError",
                              "can't solve inequalities with absolute values of a complex variable",
                              "general"))
           ELSE \E scan \in {"ok", "exponent", "domain"} :
                    IF scan = "ok"
                    THEN ri' = [ri EXCEPT
                                   !.abs_part[gen] = <<>>,
                                   !.reduced = Append(@,
                                       [how |-> "reduce_abs_inequalities",
                                        gen |-> gen,
                                        exprs |-> ri.abs_part[gen],
                                        real |-> TRUE])]
                    ELSE IF scan = "exponent"
                    THEN ri' = Raise(ri, Exc("ValueError",
                                       "only non-negative integer powers are allowed",
                                       "general"))
                    ELSE ri' = Raise(ri, Exc("NotImplementedError",
                                       "inequality solving is not supported over",
                                       "general"))
    /\ UNCHANGED <<sw, sy, ab, ln>>

\* line 426
DispReturn ==
    /\ ri.pc = "abs" /\ \A g \in Symbols : ri.abs_part[g] = <<>>
    /\ ri' = [ri EXCEPT !.pc = "done",
                        !.ret = [kind |-> "value", by |-> "general",
                                 v |-> [val |-> "And", args |-> ri.reduced]]]
    /\ UNCHANGED <<sw, sy, ab, ln>>

NextDisp ==
    \/ DispEnter
    \/ DispGuardCrash
    \/ DispSkipFast
    \/ DispFastPath
    \/ DispExcept
    \/ DispPropagate
    \/ DispLoopFalse
    \/ DispLoopTrue
    \/ DispLoopPred
    \/ DispLoopExpr
    \/ DispCombine
    \/ DispReducePoly
    \/ DispPolyDone
    \/ DispReduceAbs
    \/ DispReturn

SpecDisp == InitDisp /\ [][NextDisp]_vars

HasFalse == \E k \in 1..Len(ri.kinds) : ri.kinds[k] = "false"

ReturnedFalse == ri.ret.kind = "value" /\ ri.ret.v = [val |-> "False"]

\* C5: a system with a literal false entry at any position reduces to false,
\* whatever the other entries and the symbols argument are.
C5_FalseShortCircuits ==
    (ri.pc = "done" /\ HasFalse) => ReturnedFalse

TwoVarSingle ==
    /\ Len(ri.kinds) = 1 /\ ri.kinds[1] = "rel"
    /\ Cardinality(ri.first.gens) = 2

MultivariateUnsupported ==
    /\ ri.ret.kind = "error"
    /\ ri.ret.v.type = "NotImplementedError"
    /\ ri.ret.v.msg = "only univariate inequalities are supported"

\* C6 as stated: a single inequality in two free variables fails with
\* MultivariateUnsupported for every symbols argument.
C6_AsStated ==
    (ri.pc = "done" /\ TwoVarSingle) => MultivariateUnsupported

FastApplies ==
    /\ Len(ri.symbols) = 1
    /\ ri.first.rel_op \in Ordering
    /\ ri.p.deg = 1 /\ ri.p.a \in {"positive", "negative"}

\* C6: a single inequality in two free variables fails with
\* MultivariateUnsupported, except when symbols has exactly one entry and the
\* inequality is an ordering relation of degree 1 in that symbol with a
\* leading coefficient of known sign: then the call returns the relation the
\* fast path isolates.
C6_MultivariateUnlessFast ==
    (ri.pc = "done" /\ TwoVarSingle) =>
        IF FastApplies
        THEN /\ ri.ret.kind = "value" /\ ri.ret.by = "fast"
             /\ ri.ret.v = [val |-> "relation", rel_op |-> ri.first.rel_op,
                            form |-> IF ri.p.a = "positive"
                                     THEN "s rel -b/a" ELSE "-b/a rel s"]
        ELSE MultivariateUnsupported

\* reduce_inequalities(S(0) <= x + y*2 - 1, True, [x]) of the docstring
C6_Witness ==
    /\ ri.pc = "done" /\ TwoVarSingle
    /\ ri.symbols = <<"x">> /\ ri.assume = {}
    /\ ri.first.rel_op = "<=" /\ ri.first.funcs = "none"
    /\ ri.p = [deg |-> 1, a |-> "negative"]
    /\ ri.ret.kind = "value" /\ ri.ret.v.form = "-b/a rel s"

FastFailed == \E e \in ri.raised : e.from = "fast"

GeneralErrors == {e \in ri.raised : e.from # "fast"}

\* C8: the failure of the fast path is the only one caught: after it the
\* general path runs from the first entry and its outcome is the caller's,
\* the fast-path failure is never the caller's outcome; an error raised
\* anywhere else ends the call, is the caller's outcome and no value is
\* returned.
C8_OnlyFastRecovered ==
    /\ ri.pc \in {"guard", "loop", "poly", "abs"} => GeneralErrors = {}
    /\ ri.pc = "done" =>
        /\ ri.ret.kind = "error" => ri.ret.v.from # "fast"
        /\ FastFailed => ri.ret.by = "general" /\ ri.i >= 1
        /\ \A e \in GeneralErrors :
               ri.ret = [kind |-> "error", by |-> e.from, v |-> e]
        /\ ri.ret.kind = "value" => GeneralErrors = {}

\* the arguments are never modified by any step
C8_InputUnchanged ==
    [][/\ ri'.kinds = ri.kinds /\ ri'.first = ri.first
       /\ ri'.symbols = ri.symbols]_vars

\* a fast path that failed followed by a general path that returned a value
C8_Witness ==
    /\ ri.pc = "done" /\ FastFailed
    /\ ri.ret.kind = "value" /\ ri.ret.by = "general"
    /\ ri.ret.v.val = "And" /\ Len(ri.ret.v.args) = 1

\* a fast path that failed followed by a general path that raised
C8_WitnessError ==
    /\ ri.pc = "done" /\ FastFailed
    /\ ri.ret.kind = "error" /\ ri.ret.by = "general"
    /\ ri.ret.v.type = "ValueError"

====
